---- MODULE Spec2Model ----
(***************************************************************************)
(* A model of the local web editor's file browser and preview tabs.        *)
(*                                                                         *)
(* Spec      : the fileOpened handler of index.ts and the ContentWidget    *)
(*             tabs of the dock panel; the signal is emitted as the file   *)
(*             entries emit it (any entry, preview or commit).             *)
(* SpecClick : the file entries of DirectoryViewerWidget: the click        *)
(*             listener and its 250 ms timer, up to the emitted signal.    *)
(* SpecTree  : the periodically refreshed directory tree of the polling    *)
(*             variant (buildDirectoryTree / checkForUpdates /             *)
(*             updateDomTree), src/unnamed/part_005.                       *)
(* SpecReopen: the same tree with repeated top-level opens and dispose.    *)
(* SpecLazy  : the lazily loaded directory tree of                         *)
(*             src/src/widgets/DirectoryViewerWidget.ts.                   *)
(***************************************************************************)
EXTENDS Integers, Sequences, FiniteSets, TLC

(***************************************************************************)
(* Bounds of the model.                                                    *)
(***************************************************************************)
\* number of fileOpened signals handled in one behaviour of Spec
MaxOpens == 4
\* number of clicks on file entries in one behaviour of SpecClick
MaxClicks == 4
\* granularity, in milliseconds, by which model time advances
Quantum == 125
\* external changes of the directory in one behaviour of SpecTree
MaxChanges == 3
\* enumerations in flight at once: walks in SpecTree, handlers in SpecLazy
MaxWalks == 2
\* top-level opens of the lazy tree
MaxDirOpens == 2
\* node and <li> objects of the lazy tree
MaxObjects == 12

(***************************************************************************)
(* Program constants.                                                      *)
(***************************************************************************)
\* window.setTimeout(..., 250)
ClickDelay == 250
\* ContentWidget.previewWidget = null
NoWidget == 0
\* clickTimer = null
NoTimer == -1

(***************************************************************************)
(* The file handles of the opened directory.  A handle is an object: two   *)
(* handles are the same key only if they are the same object.  "h1" and    *)
(* "h3" are files of the same name in two directories.                     *)
(***************************************************************************)
Handles == {"h1", "h2", "h3"}

HandleName(h) == IF h = "h2" THEN "README.md" ELSE "index.ts"

\* monaco.Uri.parse('file:///' + handle.name): the key of the model registry
Uri(h) == <<"file:///", HandleName(h)>>

Uris == {Uri(h) : h \in Handles}

VARIABLES
    \* ---- index.ts / ContentWidget ----
    widgets,        \* every ContentWidget created: [handle, isPreview, attached]
    previewWidget,  \* ContentWidget.previewWidget: NoWidget or an index of widgets
    models,         \* the Uris with a model registered in monaco.editor
    loads,          \* Uri -> number of times handle.getFile() was called for it
    tasks,          \* fileOpened handlers suspended in `await handle.getFile()`
    ops,            \* what the last step did, in program order
    nopens,         \* fileOpened signals handled so far
    lastPreview,    \* the handle of the latest preview intent emitted, or "none"
    \* ---- DirectoryViewerWidget file entries ----
    clickTimer,     \* handle -> NoTimer, or the ms elapsed since setTimeout
    selectedItem,   \* this.selectedItem: the entry clicked last, or "none"
    fileSelected,   \* the entries whose <li> has the class 'file-selected'
    clickOps,       \* what the listener or timer of the last step did, in order
    emitted,        \* the fileOpened signals emitted by the last step
    hist,           \* handle -> what has been observed of that entry
    nclicks,        \* clicks so far
    removed,        \* the file entries whose <li> was taken out of the document
    \* ---- polling variant of the tree (SpecTree) ----
    fs,             \* the external directory: which entries exist, and their kind
    directoryHandle,\* this.directoryHandle is set
    directoryTree,  \* this.directoryTree, the last snapshot (NoTree: null)
    expandedPaths,  \* this.expandedPaths
    dom,            \* the root <li> of this.rootUl (NoEl: no rootUl)
    domOps,         \* create / attach / detach operations of the last step
    walks,          \* the callers of the buildDirectoryTree walks in flight
    monitorInterval,\* this.monitorInterval is set
    intervals,      \* intervals armed with window.setInterval and not cleared
    nchanges,       \* external changes so far
    \* ---- lazy variant of the tree (SpecLazy); it shares fs, directoryHandle,
    \* directoryTree, expandedPaths, dom, domOps and walks ----
    nodes,          \* the DirectoryNode / FileNode objects created so far
    liCount         \* the <li> elements created so far

openVars == <<widgets, previewWidget, models, loads, tasks, ops, nopens, lastPreview>>
clickVars == <<clickTimer, selectedItem, fileSelected, clickOps, emitted, hist, nclicks,
              removed>>
treeVars == <<fs, directoryHandle, directoryTree, expandedPaths, dom, domOps,
              walks, monitorInterval, intervals, nchanges>>
lazyVars == <<nodes, liCount>>
vars == <<openVars, clickVars, treeVars, lazyVars>>

(***************************************************************************)
(* Entries of ops.                                                         *)
(***************************************************************************)
Op(o, w, h, p) == [op |-> o, w |-> w, handle |-> h, preview |-> p]

AttachedIds(ws) == {i \in 1..Len(ws) : ws[i].attached}

(***************************************************************************)
(* ContentWidget                                                           *)
(***************************************************************************)
\* new ContentWidget(handle.name, '', handle, isPreview); dock.addWidget(it)
NewWidget(h, p) == [handle |-> h, isPreview |-> p, attached |-> TRUE]

\* onAfterAttach: the editor is bound to getModel(uri); a model is created
\* from initialContent only when none is registered
onAfterAttach(ms, h) == ms \cup {Uri(h)}

\* Widget.close(): a close request.  ContentWidget does not override
\* onCloseRequest, so the widget is unparented from the dock and nothing
\* else: dispose() is not run, the static references and the model stay.
close(ws, w) == [ws EXCEPT ![w].attached = FALSE]

\* convertToPermanent(): the widget part
convertToPermanent(ws, w) == [ws EXCEPT ![w].isPreview = FALSE]

\* convertToPermanent(): the slot part
\* convertToPermanent leaving the slot alone: a fault C12 excludes
slotAfterConvert_KeepsSlot(ws, pw, w) == pw

slotAfterConvert(ws, pw, w) == IF ws[w].isPreview /\ pw = w THEN NoWidget ELSE pw

(***************************************************************************)
(* index.ts: the fileOpened handler                                        *)
(***************************************************************************)
\* findWidgetByFileHandle without the !isPreviewMode() test: a fault C4 excludes
findWidgetByFileHandle_AnyMode(ws, h) ==
    LET hits == {i \in AttachedIds(ws) : ws[i].handle = h}
    IN  IF hits = {} THEN NoWidget ELSE CHOOSE i \in hits : \A j \in hits : i <= j

\* findWidgetByFileHandle: the first widget of the dock with this handle
\* that is not in preview mode, or NoWidget
findWidgetByFileHandle(ws, h) ==
    LET hits == {i \in AttachedIds(ws) : ws[i].handle = h /\ ~ws[i].isPreview}
    IN  IF hits = {} THEN NoWidget ELSE CHOOSE i \in hits : \A j \in hits : i <= j

\* dock.activateWidget(w): throws when w is not in the dock (caught by the
\* handler's try/catch)
activateOps(ws, w) ==
    IF ws[w].attached THEN <<Op("activate", w, ws[w].handle, ws[w].isPreview)>>
    ELSE <<Op("error", w, ws[w].handle, ws[w].isPreview)>>

\* the preview branch without the close of the held preview: a fault C1
\* excludes
PreviewBranch_NoClose(h, pre, ms) ==
    IF previewWidget # NoWidget /\ widgets[previewWidget].handle = h
    THEN /\ ops' = pre \o activateOps(widgets, previewWidget)
         /\ models' = ms
         /\ UNCHANGED <<widgets, previewWidget>>
    ELSE LET n == Len(widgets) + 1
         IN  /\ widgets' = Append(widgets, NewWidget(h, TRUE))
             /\ previewWidget' = n
             /\ models' = onAfterAttach(ms, h)
             /\ ops' = pre \o <<Op("create", n, h, TRUE), Op("activate", n, h, TRUE)>>

\* the preview branch without the test for the held handle: a fault C11
\* excludes
PreviewBranch_Recreate(h, pre, ms) ==
    LET closing == previewWidget # NoWidget
        ws1 == IF closing THEN close(widgets, previewWidget) ELSE widgets
        cl  == IF closing /\ widgets[previewWidget].attached
               THEN <<Op("close", previewWidget, widgets[previewWidget].handle, TRUE)>>
               ELSE <<>>
        n   == Len(widgets) + 1
    IN  /\ widgets' = Append(ws1, NewWidget(h, TRUE))
        /\ previewWidget' = n
        /\ models' = onAfterAttach(ms, h)
        /\ ops' = pre \o cl \o <<Op("create", n, h, TRUE), Op("activate", n, h, TRUE)>>

\* the preview branch; pre is the ops of the step so far
PreviewBranch(h, pre, ms) ==
    IF previewWidget # NoWidget /\ widgets[previewWidget].handle = h
    THEN /\ ops' = pre \o activateOps(widgets, previewWidget)
         /\ models' = ms
         /\ UNCHANGED <<widgets, previewWidget>>
    ELSE LET closing == previewWidget # NoWidget
             ws1 == IF closing THEN close(widgets, previewWidget) ELSE widgets
             cl  == IF closing /\ widgets[previewWidget].attached
                    THEN <<Op("close", previewWidget,
                              widgets[previewWidget].handle, TRUE)>>
                    ELSE <<>>
             n   == Len(widgets) + 1
         IN  /\ widgets' = Append(ws1, NewWidget(h, TRUE))
             /\ previewWidget' = n
             /\ models' = onAfterAttach(ms, h)
             /\ ops' = pre \o cl \o <<Op("create", n, h, TRUE), Op("activate", n, h, TRUE)>>

\* the commit branch closing the held preview of another key before it
\* creates the permanent view: a fault C3 (as amended) excludes
CommitBranch_ClosesPreview(h, pre, ms) ==
    LET existingWidget == findWidgetByFileHandle(widgets, h)
    IN  IF existingWidget # NoWidget
        THEN /\ ops' = pre \o activateOps(widgets, existingWidget)
             /\ models' = ms
             /\ UNCHANGED <<widgets, previewWidget>>
        ELSE IF previewWidget # NoWidget /\ widgets[previewWidget].handle = h
        THEN /\ widgets' = convertToPermanent(widgets, previewWidget)
             /\ previewWidget' = NoWidget
             /\ models' = ms
             /\ ops' = pre \o <<Op("promote", previewWidget, h, FALSE)>>
        ELSE LET n == Len(widgets) + 1
                 ws1 == IF previewWidget # NoWidget
                        THEN close(widgets, previewWidget) ELSE widgets
             IN  /\ widgets' = Append(ws1, NewWidget(h, FALSE))
                 /\ previewWidget' = NoWidget
                 /\ models' = onAfterAttach(ms, h)
                 /\ ops' = pre \o <<Op("create", n, h, FALSE), Op("activate", n, h, FALSE)>>

\* the commit branch
CommitBranch(h, pre, ms) ==
    LET existingWidget == findWidgetByFileHandle(widgets, h)
    IN  IF existingWidget # NoWidget
        THEN /\ ops' = pre \o activateOps(widgets, existingWidget)
             /\ models' = ms
             /\ UNCHANGED <<widgets, previewWidget>>
        ELSE IF previewWidget # NoWidget /\ widgets[previewWidget].handle = h
        THEN /\ widgets' = convertToPermanent(widgets, previewWidget)
             /\ previewWidget' = NoWidget
             /\ models' = ms
             /\ ops' = pre \o <<Op("promote", previewWidget, h, FALSE)>>
        ELSE LET n == Len(widgets) + 1
             IN  /\ widgets' = Append(widgets, NewWidget(h, FALSE))
                 /\ models' = onAfterAttach(ms, h)
                 /\ ops' = pre \o <<Op("create", n, h, FALSE), Op("activate", n, h, FALSE)>>
                 /\ UNCHANGED previewWidget

\* if (preview) { ... } else { ... }
OpenBranch(h, p, pre, ms) ==
    LET pre1 == pre \o <<Op("branch", NoWidget, h, p)>>
    IN  IF p THEN PreviewBranch(h, pre1, ms) ELSE CommitBranch(h, pre1, ms)

\* the handler without the getModel(uri) lookup: a fault C5 excludes
NeedsLoad_Always(h) == TRUE

\* let model = monaco.editor.getModel(uri); if (!model) { await handle.getFile() ...
NeedsLoad(h) == Uri(h) \notin models

\* The handler from its call by the signal to its first await (or to its
\* end, when the model is registered already).
fileOpened(h, p) ==
    IF NeedsLoad(h)
    THEN /\ tasks' = Append(tasks, [handle |-> h, preview |-> p])
         /\ loads' = [loads EXCEPT ![Uri(h)] = @ + 1]
         /\ ops' = <<Op("open", NoWidget, h, p), Op("load", NoWidget, h, p)>>
         /\ UNCHANGED <<widgets, previewWidget, models>>
    ELSE /\ OpenBranch(h, p, <<Op("open", NoWidget, h, p)>>, models)
         /\ UNCHANGED <<tasks, loads>>

\* A file entry emits fileOpened (a preview or a commit intent) and the
\* connected handler runs to its first suspension.
Emit(h, p) ==
    /\ nopens < MaxOpens
    /\ nopens' = nopens + 1
    /\ lastPreview' = IF p THEN h ELSE lastPreview
    /\ fileOpened(h, p)
    /\ UNCHANGED <<clickVars, treeVars, lazyVars>>

RemoveAt(s, i) == SubSeq(s, 1, i - 1) \o SubSeq(s, i + 1, Len(s))

\* The read of task i completes: createModel(content, undefined, uri) throws
\* when a model of that uri was registered in the meantime (the catch logs
\* it); otherwise the handler runs to its end.
ReadDone(i) ==
    /\ i \in 1..Len(tasks)
    /\ LET t == tasks[i]
           pre == <<Op("resume", NoWidget, t.handle, t.preview)>>
       IN  /\ tasks' = RemoveAt(tasks, i)
           /\ IF Uri(t.handle) \in models
              THEN /\ ops' = pre \o <<Op("error", NoWidget, t.handle, t.preview)>>
                   /\ UNCHANGED <<widgets, previewWidget, models>>
              ELSE OpenBranch(t.handle, t.preview,
                              pre \o <<Op("createModel", NoWidget, t.handle, t.preview)>>,
                              models \cup {Uri(t.handle)})
    /\ UNCHANGED <<loads, nopens, lastPreview, clickVars, treeVars, lazyVars>>

\* the handler with the catch around the read only, going on to the view
\* (whose onAfterAttach creates an empty model): a fault C26 excludes
readError_OpensAnyway(h, p) ==
    OpenBranch(h, p, <<Op("resume", NoWidget, h, p), Op("error", NoWidget, h, p)>>, models)

\* `await handle.getFile()` / `await file.text()` raises: control goes to the
\* catch at the end of the handler, which logs the error
readError(h, p) ==
    /\ ops' = <<Op("resume", NoWidget, h, p), Op("error", NoWidget, h, p)>>
    /\ UNCHANGED <<widgets, previewWidget, models>>

\* The read of task i fails.
ReadFail(i) ==
    /\ i \in 1..Len(tasks)
    /\ tasks' = RemoveAt(tasks, i)
    /\ readError(tasks[i].handle, tasks[i].preview)
    /\ UNCHANGED <<loads, nopens, lastPreview, clickVars, treeVars, lazyVars>>

\* The user closes a tab (title.closable, or file:close on the current one).
CloseTab(w) ==
    /\ w \in AttachedIds(widgets)
    /\ widgets' = close(widgets, w)
    /\ ops' = <<Op("close", w, widgets[w].handle, widgets[w].isPreview)>>
    /\ UNCHANGED <<previewWidget, models, loads, tasks, nopens, lastPreview, clickVars, treeVars, lazyVars>>

\* The widgets whose editor reports a change of the model of uri u through
\* the listener registered for preview widgets in onAfterAttach.
Listeners(ws, u) == {i \in 1..Len(ws) : Uri(ws[i].handle) = u /\ ws[i].isPreview}

\* The user edits in the attached view w: onDidChangeModelContent fires in
\* every editor on that model, and each listener runs convertToPermanent().
EditContent(w) ==
    /\ w \in AttachedIds(widgets)
    /\ LET ls == Listeners(widgets, Uri(widgets[w].handle))
       IN  /\ ls # {}
           /\ widgets' = [i \in 1..Len(widgets) |->
                            IF i \in ls THEN convertToPermanent(widgets, i)[i]
                            ELSE widgets[i]]
           /\ previewWidget' = IF previewWidget \in ls
                               THEN slotAfterConvert(widgets, previewWidget, previewWidget)
                               ELSE previewWidget
           /\ ops' = <<Op("edit", w, widgets[w].handle, widgets[w].isPreview)>>
    /\ UNCHANGED <<models, loads, tasks, nopens, lastPreview, clickVars, treeVars, lazyVars>>

(***************************************************************************)
(* DirectoryViewerWidget: a file entry                                     *)
(***************************************************************************)
Min(a, b) == IF a < b THEN a ELSE b

NoHist == [clicks |-> 0, fast |-> TRUE, age |-> 0, previews |-> 0, commits |-> 0]

Intent(h, p) == [handle |-> h, preview |-> p]

\* A timer whose delay has elapsed runs before anything else happens.
Due(h) == clickTimer[h] # NoTimer /\ clickTimer[h] >= ClickDelay

\* the click listener without clearTimeout on the second click: a fault C2
\* excludes
clickTimerAfterClick_KeepsTimer(h) ==
    IF clickTimer[h] # NoTimer
    THEN clickTimer
    ELSE [clickTimer EXCEPT ![h] = 0]

\* the click listener arming a new timer on the click that cancels one: a
\* fault C34 excludes
clickTimerAfterClick_Rearm(h) == [clickTimer EXCEPT ![h] = 0]

\* the click listener of a file entry: what it does to clickTimer
clickTimerAfterClick(h) ==
    IF clickTimer[h] # NoTimer
    THEN [clickTimer EXCEPT ![h] = NoTimer]
    ELSE [clickTimer EXCEPT ![h] = 0]

\* the click listener with one timer for all entries: a fault C23 excludes
emittedByClick_AnyTimer(h) ==
    IF \E g \in Handles : clickTimer[g] # NoTimer THEN <<Intent(h, FALSE)>> ELSE <<>>

\* the click listener of a file entry: what it emits
emittedByClick(h) ==
    IF clickTimer[h] # NoTimer THEN <<Intent(h, FALSE)>> ELSE <<>>

\* the timeout callback of a file entry: what it emits
emittedByTimer(h) == <<Intent(h, TRUE)>>

Count(s, x) == Cardinality({i \in 1..Len(s) : s[i] = x})

\* hist after a step of entry h that was a click (or not) and emitted em
Observe(h, clicked, em) ==
    [hist EXCEPT
        ![h].clicks = IF clicked THEN @ + 1 ELSE @,
        ![h].fast = IF clicked
                    THEN @ /\ (hist[h].clicks = 0 \/ hist[h].age < ClickDelay)
                    ELSE @,
        ![h].age = IF clicked THEN 0 ELSE @,
        ![h].previews = @ + Count(em, Intent(h, TRUE)),
        ![h].commits = @ + Count(em, Intent(h, FALSE))]

\* the click listener without the removal of the previous entry's class: a
\* fault C22 excludes
fileSelectedAfterClick_KeepsPrevious(h) == fileSelected \cup {h}

\* the click listener of a file entry: what it does to the 'file-selected'
\* classes
fileSelectedAfterClick(h) ==
    (IF selectedItem # "none" THEN fileSelected \ {selectedItem} ELSE fileSelected) \cup {h}

ClickOp(o, h) == [op |-> o, entry |-> h]

\* the click listener of a file entry: its statements in program order
clickOpsOfClick(h) ==
    (IF selectedItem # "none" THEN <<ClickOp("unselect", selectedItem)>> ELSE <<>>)
    \o <<ClickOp("select", h)>>
    \o (IF clickTimer[h] # NoTimer
        THEN <<ClickOp("clearTimeout", h), ClickOp("emit", h)>>
        ELSE <<ClickOp("setTimeout", h)>>)

Click(h) ==
    /\ nclicks < MaxClicks
    /\ h \notin removed
    /\ \A g \in Handles : ~Due(g)
    /\ nclicks' = nclicks + 1
    /\ selectedItem' = h
    /\ fileSelected' = fileSelectedAfterClick(h)
    /\ clickOps' = clickOpsOfClick(h)
    /\ clickTimer' = clickTimerAfterClick(h)
    /\ emitted' = emittedByClick(h)
    /\ hist' = Observe(h, TRUE, emitted')
    /\ UNCHANGED <<removed, openVars, treeVars, lazyVars>>

TimerFire(h) ==
    /\ Due(h)
    /\ clickTimer' = [clickTimer EXCEPT ![h] = NoTimer]
    /\ emitted' = emittedByTimer(h)
    /\ clickOps' = <<ClickOp("emit", h)>>
    /\ hist' = Observe(h, FALSE, emitted')
    /\ UNCHANGED <<selectedItem, fileSelected, nclicks, removed, openVars, treeVars, lazyVars>>

\* the time that passes in one step: Quantum ms, or less when a pending timer
\* is due sooner
Elapse ==
    LET left == {ClickDelay - clickTimer[g] : g \in {f \in Handles : clickTimer[f] # NoTimer}}
    IN  IF \E d \in left : d < Quantum
        THEN CHOOSE d \in left : \A e \in left : d <= e
        ELSE Quantum

\* time passes
Advance ==
    /\ \A g \in Handles : ~Due(g)
    /\ \E g \in Handles : clickTimer[g] # NoTimer
                          \/ (hist[g].clicks > 0 /\ hist[g].age <= ClickDelay)
    /\ clickTimer' = [g \in Handles |->
                        IF clickTimer[g] = NoTimer THEN NoTimer
                        ELSE clickTimer[g] + Elapse]
    /\ hist' = [g \in Handles |->
                  [hist[g] EXCEPT !.age = Min(@ + Elapse, ClickDelay + Quantum)]]
    /\ emitted' = <<>>
    /\ clickOps' = <<>>
    /\ UNCHANGED <<selectedItem, fileSelected, nclicks, removed, openVars, treeVars, lazyVars>>

\* the directory whose nested <ul> holds the <li> of a file entry
DirOf(h) == IF h = "h3" THEN "test" ELSE "src"

\* what takes file entries out of the document: the collapse of a directory
\* (childUl.innerHTML = '') removes the entries of that directory, the end of
\* a top-level open (container.innerHTML = '') removes them all
Removals == {{h \in Handles : DirOf(h) = d} : d \in {"src", "test"}} \cup {Handles}

\* The <li>s of the entries S are taken out of the document.  Neither the
\* collapse branch nor setDirectoryHandle touches a clickTimer.
RemoveEntries(S) ==
    /\ S \in Removals
    /\ S \ removed # {}
    /\ \A g \in Handles : ~Due(g)
    /\ removed' = removed \cup S
    /\ emitted' = <<>>
    /\ clickOps' = <<>>
    /\ UNCHANGED <<clickTimer, selectedItem, fileSelected, hist, nclicks,
                   openVars, treeVars, lazyVars>>

(***************************************************************************)
(* The external directory (SpecTree).                                      *)
(*                                                                         *)
(*   r/            the opened directory                                    *)
(*     a           a file, or absent                                       *)
(*     d           absent, a file, or a directory                          *)
(*       x         a file, or absent                                       *)
(*       e         absent, a file, or an (empty) directory                 *)
(*     b           a file, or absent                                       *)
(*   q/            another directory (SpecLazy)                            *)
(*     c           a file                                                  *)
(***************************************************************************)
Kinds == {"none", "file", "directory"}

Stores ==
    {s \in [a : BOOLEAN, b : BOOLEAN, d : Kinds, x : BOOLEAN, e : Kinds] :
        s.d # "directory" => (~s.x /\ s.e = "none")}

EmptyStore == [a |-> FALSE, b |-> FALSE, d |-> "none", x |-> FALSE, e |-> "none"]

\* the directory as it is when the application starts
InitialStores ==
    {s \in Stores : s.a /\ ~s.b /\ s.d = "directory" /\ s.x /\ s.e = "directory"}

Entry(n, k) == [name |-> n, kind |-> k]

Present(es) == SelectSeq(es, LAMBDA en : en.kind # "none")

\* FileSystemDirectoryHandle.entries() of the directory at path, in the
\* order the store reports
entries(s, path) ==
    IF path = <<"r">>
    THEN Present(<<Entry("a", IF s.a THEN "file" ELSE "none"),
                   Entry("d", s.d),
                   Entry("b", IF s.b THEN "file" ELSE "none")>>)
    ELSE IF path = <<"r", "d">>
    THEN Present(<<Entry("x", IF s.x THEN "file" ELSE "none"),
                   Entry("e", s.e)>>)
    ELSE IF path = <<"q">>
    THEN <<Entry("c", "file")>>
    ELSE <<>>

\* one external operation on the store
StoreEdits(s) ==
    {t \in Stores :
        /\ t # s
        /\ \/ t = [s EXCEPT !.a = ~s.a]
           \/ t = [s EXCEPT !.b = ~s.b]
           \/ t = [s EXCEPT !.x = ~s.x]
           \/ \E k \in Kinds : t = [s EXCEPT !.e = k]
           \/ \E k \in Kinds : t = [EmptyStore EXCEPT !.a = s.a, !.b = s.b, !.d = k]}

(***************************************************************************)
(* DirectoryViewerWidget of the polling variant (src/unnamed/part_005)     *)
(***************************************************************************)
NoTree == [name |-> "", kind |-> "none", children |-> <<>>]

NoEl == [path |-> <<>>, kind |-> "none", cls |-> "", node |-> NoTree, kids |-> <<>>]

DomOp(o, path) == [op |-> o, path |-> path]

RECURSIVE buildDirectoryTree(_, _, _, _)
\* buildDirectoryTree(handle, path): the whole subtree is walked
buildDirectoryTree(s, name, kind, path) ==
    LET currentPath == Append(path, name)
        es == entries(s, currentPath)
    IN  [name |-> name,
         kind |-> kind,
         children |-> IF kind = "directory"
                      THEN [i \in 1..Len(es) |->
                              buildDirectoryTree(s, es[i].name, es[i].kind, currentPath)]
                      ELSE <<>>]

\* Map.keys() / Map.has() / Map.get() of node.children
Names(node) == [i \in 1..Len(node.children) |-> node.children[i].name]

Has(node, n) == \E i \in 1..Len(node.children) : node.children[i].name = n

Get(node, n) == node.children[CHOOSE i \in 1..Len(node.children) : node.children[i].name = n]

RECURSIVE createDomNode(_, _, _)
\* createDomNode(node, path): the <li>, with its class, the node its click
\* listener closes over, and the <li>s of its nested <ul>
createDomNode(node, path, ex) ==
    LET currentPath == Append(path, node.name)
    IN  [path |-> currentPath,
         kind |-> node.kind,
         cls  |-> IF node.kind # "directory" THEN "file"
                  ELSE IF currentPath \in ex THEN "expanded" ELSE "collapsed",
         node |-> node,
         kids |-> IF node.kind = "directory" /\ currentPath \in ex
                  THEN [i \in 1..Len(node.children) |->
                          createDomNode(node.children[i], currentPath, ex)]
                  ELSE <<>>]

RECURSIVE Flatten(_)
Flatten(ss) == IF ss = <<>> THEN <<>> ELSE Head(ss) \o Flatten(Tail(ss))

RECURSIVE Creates(_)
\* the elements createDomNode made for el, as create operations
Creates(el) ==
    <<DomOp("create", el.path)>> \o Flatten([i \in 1..Len(el.kids) |-> Creates(el.kids[i])])

\* domUl.querySelector('[data-path="..."]'): the first match, 0 when none
QueryIdx(kids, path) ==
    LET hits == {i \in 1..Len(kids) : kids[i].path = path}
    IN  IF hits = {} THEN 0 ELSE CHOOSE i \in hits : \A j \in hits : i <= j

RECURSIVE RemoveGone(_, _, _, _)
\* for (const name of oldNames) if (!newNames.has(name)) removeChild(...)
RemoveGone(names, newNode, cp, acc) ==
    IF names = <<>> THEN acc
    ELSE LET n == Head(names)
             i == QueryIdx(acc.kids, Append(cp, n))
         IN  IF ~Has(newNode, n) /\ i # 0
             THEN RemoveGone(Tail(names), newNode, cp,
                             [kids |-> RemoveAt(acc.kids, i),
                              ops |-> Append(acc.ops, DomOp("detach", Append(cp, n)))])
             ELSE RemoveGone(Tail(names), newNode, cp, acc)

RECURSIVE AppendNew(_, _, _, _, _, _)
\* for (const name of newNames) if (!oldNames.has(name)) appendChild(createDomNode(...))
AppendNew(names, oldNode, newNode, cp, ex, acc) ==
    IF names = <<>> THEN acc
    ELSE LET n == Head(names)
             el == createDomNode(Get(newNode, n), cp, ex)
         IN  IF ~Has(oldNode, n)
             THEN AppendNew(Tail(names), oldNode, newNode, cp, ex,
                            [kids |-> Append(acc.kids, el),
                             ops |-> acc.ops \o Creates(el)
                                     \o <<DomOp("attach", el.path)>>])
             ELSE AppendNew(Tail(names), oldNode, newNode, cp, ex, acc)

\* updateDomTree rebuilding the element whatever the snapshots say: a fault
\* C8 excludes
updateDomTree_Rebuild(oldNode, newNode, el, path, ex) ==
    LET newEl == createDomNode(newNode, path, ex)
    IN  [el |-> newEl,
         ops |-> Creates(newEl)
                 \o <<DomOp("detach", el.path), DomOp("attach", newEl.path)>>]

RECURSIVE updateDomTree(_, _, _, _, _)
RECURSIVE UpdateCommon(_, _, _, _, _, _)
\* for (const name of newNames) if (oldNames.has(name)) updateDomTree(child...)
UpdateCommon(names, oldNode, newNode, cp, ex, acc) ==
    IF names = <<>> THEN acc
    ELSE LET n == Head(names)
             i == QueryIdx(acc.kids, Append(cp, n))
         IN  IF Has(oldNode, n) /\ i # 0
             THEN LET r == updateDomTree(Get(oldNode, n), Get(newNode, n),
                                         acc.kids[i], cp, ex)
                  IN  UpdateCommon(Tail(names), oldNode, newNode, cp, ex,
                                   [kids |-> [acc.kids EXCEPT ![i] = r.el],
                                    ops |-> acc.ops \o r.ops])
             ELSE UpdateCommon(Tail(names), oldNode, newNode, cp, ex, acc)

\* updateDomTree(oldNode, newNode, domElement, path): the element that stands
\* in domElement's place afterwards, and the operations performed
updateDomTree(oldNode, newNode, el, path, ex) ==
    LET currentPath == Append(path, oldNode.name)
    IN  IF oldNode.kind # newNode.kind \/ oldNode.name # newNode.name
        THEN LET newEl == createDomNode(newNode, path, ex)
             IN  [el |-> newEl,
                  ops |-> Creates(newEl)
                          \o <<DomOp("detach", el.path), DomOp("attach", newEl.path)>>]
        ELSE IF newNode.kind = "directory"
        THEN LET el1 == [el EXCEPT !.cls = IF currentPath \in ex
                                           THEN "expanded" ELSE "collapsed"]
             IN  IF el.kind # "directory"
                 THEN [el |-> el1, ops |-> <<>>]
                 ELSE LET a1 == RemoveGone(Names(oldNode), newNode, currentPath,
                                           [kids |-> el.kids, ops |-> <<>>])
                          a2 == AppendNew(Names(newNode), oldNode, newNode,
                                          currentPath, ex, a1)
                          a3 == UpdateCommon(Names(newNode), oldNode, newNode,
                                             currentPath, ex, a2)
                      IN  [el |-> [el1 EXCEPT !.kids = a3.kids], ops |-> a3.ops]
        ELSE [el |-> el, ops |-> <<>>]

RECURSIVE Enumerated(_, _)
\* the directories buildDirectoryTree has called entries() on to build node
Enumerated(node, path) ==
    IF node.kind # "directory" THEN {}
    ELSE {Append(path, node.name)}
         \cup UNION {Enumerated(node.children[k], Append(path, node.name)) :
                        k \in 1..Len(node.children)}

\* The walk of the store that is in flight reads it at the moment it
\* completes.
Walk == buildDirectoryTree(fs, "r", "directory", <<>>)

\* if (this.monitorInterval !== null) clearInterval(this.monitorInterval):
\* the intervals armed afterwards
intervalsAfterClear == IF monitorInterval THEN intervals - 1 ELSE intervals

\* async setDirectoryHandle(handle), to its first await: the walk starts
setDirectoryHandle ==
    /\ directoryHandle' = TRUE
    /\ monitorInterval' = FALSE
    /\ intervals' = intervalsAfterClear
    /\ walks' = Append(walks, "open")
    /\ domOps' = <<>>
    /\ UNCHANGED <<fs, directoryTree, expandedPaths, dom, nchanges, openVars, clickVars, lazyVars>>

\* The user opens the directory; in SpecTree, once.
OpenStart ==
    /\ ~directoryHandle
    /\ setDirectoryHandle

\* The user opens the directory again (SpecReopen), possibly while an open
\* is still walking.
Reopen ==
    /\ directoryHandle
    /\ Len(walks) < MaxWalks
    /\ intervals < MaxDirOpens
    /\ setDirectoryHandle

\* dispose()
Dispose ==
    /\ directoryHandle
    /\ monitorInterval
    /\ monitorInterval' = FALSE
    /\ intervals' = intervalsAfterClear
    /\ domOps' = <<DomOp("dispose", <<>>)>>
    /\ UNCHANGED <<fs, directoryHandle, directoryTree, expandedPaths, dom, walks,
                   nchanges, openVars, clickVars, lazyVars>>

\* setDirectoryHandle, from the end of its walk to its end
OpenDone(i) ==
    /\ i \in 1..Len(walks)
    /\ walks[i] = "open"
    /\ walks' = RemoveAt(walks, i)
    /\ directoryTree' = Walk
    /\ expandedPaths' = expandedPaths \cup {<<Walk.name>>}
    /\ dom' = createDomNode(Walk, <<>>, expandedPaths')
    /\ domOps' = <<DomOp("clear", <<>>)>> \o Creates(dom') \o <<DomOp("attach", dom'.path)>>
    /\ monitorInterval' = TRUE
    /\ intervals' = intervals + 1
    /\ UNCHANGED <<fs, directoryHandle, nchanges, openVars, clickVars, lazyVars>>

\* an armed interval fires: checkForUpdates(), to its await
Tick ==
    /\ intervals > 0
    /\ Len(walks) < MaxWalks
    /\ directoryHandle /\ directoryTree # NoTree /\ dom # NoEl
    /\ walks' = Append(walks, "refresh")
    /\ domOps' = <<>>
    /\ UNCHANGED <<fs, directoryHandle, directoryTree, expandedPaths, dom,
                   monitorInterval, intervals, nchanges, openVars, clickVars, lazyVars>>

\* checkForUpdates(), from the end of its walk to its end
RefreshDone(i) ==
    /\ i \in 1..Len(walks)
    /\ walks[i] = "refresh"
    /\ walks' = RemoveAt(walks, i)
    /\ LET r == updateDomTree(directoryTree, Walk, dom, <<>>, expandedPaths)
       IN  /\ dom' = r.el
           /\ domOps' = <<DomOp(IF Walk = directoryTree THEN "refresh-same" ELSE "refresh",
                               <<>>)>> \o r.ops
    /\ directoryTree' = Walk
    /\ UNCHANGED <<fs, directoryHandle, expandedPaths, monitorInterval, intervals,
                   nchanges, openVars, clickVars, lazyVars>>

RECURSIVE Without(_, _, _)
\* the snapshot node without the children of the directory at key P
Without(node, path, P) ==
    IF node.kind # "directory" THEN node
    ELSE IF Append(path, node.name) = P THEN [node EXCEPT !.children = <<>>]
    ELSE [node EXCEPT !.children =
            [k \in 1..Len(node.children) |->
                Without(node.children[k], Append(path, node.name), P)]]

\* checkForUpdates reconciling with what the walk had collected when the
\* enumeration of P raised: a fault C25 excludes
checkForUpdatesFailed_Partial(P) ==
    LET r == updateDomTree(directoryTree, Without(Walk, <<>>, P), dom, <<>>, expandedPaths)
    IN  [el |-> r.el, tree |-> Without(Walk, <<>>, P), ops |-> r.ops]

\* checkForUpdates when `await this.buildDirectoryTree(...)` raises: the
\* statements after the await are not run
checkForUpdatesFailed(P) == [el |-> dom, tree |-> directoryTree, ops |-> <<>>]

\* checkForUpdates(), its walk failing in the enumeration of directory P
RefreshFail(i, P) ==
    /\ i \in 1..Len(walks)
    /\ walks[i] = "refresh"
    /\ P \in Enumerated(Walk, <<>>)
    /\ walks' = RemoveAt(walks, i)
    /\ dom' = checkForUpdatesFailed(P).el
    /\ directoryTree' = checkForUpdatesFailed(P).tree
    /\ domOps' = <<DomOp("refresh-failed", P)>> \o checkForUpdatesFailed(P).ops
    /\ UNCHANGED <<fs, directoryHandle, expandedPaths, monitorInterval, intervals,
                   nchanges, openVars, clickVars, lazyVars>>

\* the element at index path ip below el (<<>>: el itself)
RECURSIVE ElAt(_, _)
ElAt(el, ip) == IF ip = <<>> THEN el ELSE ElAt(el.kids[Head(ip)], Tail(ip))

RECURSIVE SetAt(_, _, _)
SetAt(el, ip, new) ==
    IF ip = <<>> THEN new
    ELSE [el EXCEPT !.kids[Head(ip)] = SetAt(el.kids[Head(ip)], Tail(ip), new)]

\* the index paths of the directory entries the user can click: every
\* ancestor is expanded
RECURSIVE Clickable(_, _)
Clickable(el, ip) ==
    IF el.kind # "directory" THEN {}
    ELSE {ip} \cup
         (IF el.cls = "expanded"
          THEN UNION {Clickable(el.kids[k], Append(ip, k)) : k \in 1..Len(el.kids)}
          ELSE {})

\* the click listener of a directory entry
toggle(el, ex) ==
    IF el.cls = "collapsed"
    THEN [el EXCEPT !.cls = "expanded",
                    !.kids = IF el.kids = <<>>
                             THEN [k \in 1..Len(el.node.children) |->
                                     createDomNode(el.node.children[k], el.path,
                                                   ex \cup {el.path})]
                             ELSE el.kids]
    ELSE [el EXCEPT !.cls = "collapsed"]

DirClick(ip) ==
    /\ dom # NoEl
    /\ ip \in Clickable(dom, <<>>)
    /\ LET el == ElAt(dom, ip)
           el2 == toggle(el, expandedPaths)
       IN  /\ dom' = SetAt(dom, ip, el2)
           /\ expandedPaths' = IF el.cls = "collapsed"
                               THEN expandedPaths \cup {el.path}
                               ELSE expandedPaths \ {el.path}
           /\ domOps' = IF el.cls = "collapsed" /\ el.kids = <<>>
                        THEN Flatten([k \in 1..Len(el2.kids) |->
                                Creates(el2.kids[k])
                                \o <<DomOp("attach", el2.kids[k].path)>>])
                        ELSE <<>>
    /\ UNCHANGED <<fs, directoryHandle, directoryTree, walks, monitorInterval,
                   intervals, nchanges, openVars, clickVars, lazyVars>>

\* the store changes behind the application's back
StoreChange(t) ==
    /\ nchanges < MaxChanges
    /\ t \in StoreEdits(fs)
    /\ fs' = t
    /\ nchanges' = nchanges + 1
    /\ domOps' = <<>>
    /\ UNCHANGED <<directoryHandle, directoryTree, expandedPaths, dom, walks,
                   monitorInterval, intervals, openVars, clickVars, lazyVars>>

(***************************************************************************)
(* DirectoryViewerWidget of the lazy variant                               *)
(* (src/src/widgets/DirectoryViewerWidget.ts).  The nodes are objects: a   *)
(* node is its index in nodes, and an <li> holds the node its listeners    *)
(* close over.  An enumeration (for await ... of handle.entries()) is a    *)
(* handler in flight in walks; one entry arrives per step.                 *)
(***************************************************************************)
RootHandles == {"r", "q"}

NoHandle == "none"

NoNode == 0

\* what a failed top-level open is compared with
Prior == [directoryHandle |-> directoryHandle, directoryTree |-> directoryTree,
          expandedPaths |-> expandedPaths, dom |-> dom]

NoPrior == [directoryHandle |-> NoHandle, directoryTree |-> NoNode,
            expandedPaths |-> {}, dom |-> NoEl]

\* a FileNode or DirectoryNode object; path stands for its handle, reads
\* counts the enumerations started on it
NewNode(name, kind, path, loaded, reads) ==
    [name |-> name, kind |-> kind, path |-> path, loaded |-> loaded,
     children |-> <<>>, reads |-> reads]

\* a handler suspended in for await (... of handle.entries()); dir is the
\* directory of the handle, got what its enumeration has reported so far
Handler(op, node, li, dir, prior) ==
    [op |-> op, node |-> node, li |-> li, dir |-> dir, todo |-> entries(fs, dir),
     got |-> <<>>, prior |-> prior]

\* node.children.set(name, child): a Map keeps the position of a key it has
MapSet(heap, children, name, id) ==
    LET hits == {k \in 1..Len(children) : heap[children[k]].name = name}
    IN  IF hits = {} THEN Append(children, id)
        ELSE [k \in 1..Len(children) |-> IF k \in hits THEN id ELSE children[k]]

RECURSIVE lazyCreateDomNode(_, _, _, _, _)
RECURSIVE lazyCreateChildren(_, _, _, _, _, _)
\* createDomNode(node, path) of the lazy variant, k elements having been
\* created before: the <li> and the new count
lazyCreateDomNode(heap, n, path, ex, k) ==
    LET node == heap[n]
        currentPath == Append(path, node.name)
        shown == node.kind = "directory" /\ currentPath \in ex
        r == IF shown /\ node.loaded
             THEN lazyCreateChildren(heap, node.children, currentPath, ex, k + 1, <<>>)
             ELSE [els |-> <<>>, k |-> k + 1]
    IN  [el |-> [id |-> k + 1,
                 path |-> currentPath,
                 kind |-> node.kind,
                 cls |-> IF node.kind # "directory" THEN "file"
                         ELSE IF shown THEN "expanded" ELSE "collapsed",
                 node |-> n,
                 kids |-> r.els],
         k |-> r.k]

\* for (const childNode of node.children.values()) childUl.appendChild(...)
lazyCreateChildren(heap, ids, path, ex, k, acc) ==
    IF ids = <<>> THEN [els |-> acc, k |-> k]
    ELSE LET r == lazyCreateDomNode(heap, Head(ids), path, ex, k)
         IN  lazyCreateChildren(heap, Tail(ids), path, ex, r.k, Append(acc, r.el))

RECURSIVE LiPos(_, _, _)
\* where the <li> with this id is in the document (no place: it is detached)
LiPos(el, id, ip) ==
    IF el = NoEl THEN {}
    ELSE (IF el.id = id THEN {ip} ELSE {})
         \cup UNION {LiPos(el.kids[k], id, Append(ip, k)) : k \in 1..Len(el.kids)}

\* childUl.innerHTML = ''; then the children rendered into childUl
Render(el, heap, ex, k) ==
    LET r == lazyCreateChildren(heap, heap[el.node].children, el.path, ex, k, <<>>)
    IN  [el |-> [el EXCEPT !.kids = r.els], k |-> r.k]

\* the expand branch without node.loaded = true before the enumeration: a
\* fault C16 excludes
startLoad_NotMarked(heap, n) ==
    [heap EXCEPT ![n].children = <<>>, ![n].reads = @ + 1]

\* if (!node.loaded) { node.loaded = true; node.children = new Map(); ...
startLoad(heap, n) ==
    [heap EXCEPT ![n].loaded = TRUE, ![n].children = <<>>, ![n].reads = @ + 1]

\* a collapse that discards the loaded children: a fault C17 excludes
collapseNodes_Discard(heap, n) ==
    [heap EXCEPT ![n].loaded = FALSE, ![n].children = <<>>]

\* the collapse branch of the click listener: what it does to the nodes
collapseNodes(heap, n) == heap

\* async setDirectoryHandle(handle), to its first await
LazyOpenStart(h) ==
    /\ Cardinality({n \in 1..Len(nodes) : Len(nodes[n].path) = 1}) < MaxDirOpens
    /\ Len(walks) < MaxWalks
    /\ directoryHandle' = h
    /\ nodes' = Append(nodes, NewNode(h, "directory", <<h>>, TRUE, 1))
    /\ directoryTree' = Len(nodes) + 1
    /\ expandedPaths' = {<<h>>}
    /\ walks' = Append(walks, Handler("open", NoNode, 0, <<h>>, Prior))
    /\ domOps' = <<DomOp("openStart", <<h>>)>>
    /\ UNCHANGED <<fs, dom, liCount, monitorInterval, intervals, nchanges,
                   openVars, clickVars>>

\* handle.entries() reports its next entry to the handler i: a top-level open
\* writes it into this.directoryTree, an expand into the node of its <li>
EnumNext(i) ==
    /\ i \in 1..Len(walks)
    /\ walks[i].todo # <<>>
    /\ LET t == walks[i]
           e == Head(t.todo)
           target == IF t.op = "open" THEN directoryTree ELSE t.node
           id == Len(nodes) + 1
           child == NewNode(e.name, e.kind, Append(t.dir, e.name), FALSE, 0)
       IN  /\ nodes' = Append([nodes EXCEPT ![target].children =
                                   MapSet(nodes, @, e.name, id)], child)
           /\ walks' = [walks EXCEPT ![i].todo = Tail(@), ![i].got = Append(@, e)]
           /\ domOps' = <<DomOp("entry", child.path)>>
    /\ UNCHANGED <<fs, directoryHandle, directoryTree, expandedPaths, dom, liCount,
                   monitorInterval, intervals, nchanges, openVars, clickVars>>

\* the enumeration of handler i raises: a top-level open ends in the catch of
\* file:open-directory, an expand as a rejected promise
EnumFail(i) ==
    /\ i \in 1..Len(walks)
    /\ walks' = RemoveAt(walks, i)
    /\ domOps' = <<DomOp(IF walks[i].op = "open" THEN "openFail" ELSE "expandFail",
                         IF walks[i].op = "open" THEN <<>> ELSE nodes[walks[i].node].path)>>
    /\ UNCHANGED <<fs, directoryHandle, directoryTree, expandedPaths, dom, nodes, liCount,
                   monitorInterval, intervals, nchanges, openVars, clickVars>>

\* the enumeration of handler i is done: the handler runs to its end
EnumDone(i) ==
    /\ i \in 1..Len(walks)
    /\ walks[i].todo = <<>>
    /\ walks' = RemoveAt(walks, i)
    /\ LET t == walks[i]
       IN  IF t.op = "open"
           THEN LET r == lazyCreateDomNode(nodes, directoryTree, <<>>, expandedPaths, liCount)
                IN  /\ dom' = r.el
                    /\ liCount' = r.k
                    /\ domOps' = <<DomOp("openDone", r.el.path)>>
           ELSE LET at == LiPos(dom, t.li, <<>>)
                    path == nodes[t.node].path
                IN  /\ domOps' = <<DomOp("expandDone", path)>>
                    /\ IF at = {}
                       THEN /\ dom' = dom
                            /\ liCount' = liCount + Len(nodes[t.node].children)
                       ELSE LET ip == CHOOSE x \in at : TRUE
                                r == Render(ElAt(dom, ip), nodes, expandedPaths, liCount)
                            IN  /\ dom' = SetAt(dom, ip, r.el)
                                /\ liCount' = r.k
    /\ UNCHANGED <<fs, directoryHandle, directoryTree, expandedPaths, nodes,
                   monitorInterval, intervals, nchanges, openVars, clickVars>>

\* the click listener of a directory entry, to its first await or to its end
LazyDirClick(ip) ==
    /\ dom # NoEl
    /\ ip \in Clickable(dom, <<>>)
    /\ Len(nodes) + liCount < MaxObjects
    /\ Len(walks) < MaxWalks
    /\ LET el == ElAt(dom, ip)
           n == el.node
       IN  IF el.cls = "collapsed"
           THEN /\ expandedPaths' = expandedPaths \cup {el.path}
                /\ IF ~nodes[n].loaded
                   THEN /\ nodes' = startLoad(nodes, n)
                        /\ walks' = Append(walks, Handler("expand", n, el.id,
                                                          nodes[n].path, NoPrior))
                        /\ dom' = SetAt(dom, ip, [el EXCEPT !.cls = "expanded"])
                        /\ domOps' = <<DomOp("expandStart", el.path)>>
                        /\ UNCHANGED liCount
                   ELSE LET r == Render([el EXCEPT !.cls = "expanded"], nodes,
                                        expandedPaths', liCount)
                        IN  /\ dom' = SetAt(dom, ip, r.el)
                            /\ liCount' = r.k
                            /\ domOps' = <<DomOp("expand", el.path)>>
                            /\ UNCHANGED <<nodes, walks>>
           ELSE /\ expandedPaths' = expandedPaths \ {el.path}
                /\ nodes' = collapseNodes(nodes, n)
                /\ dom' = SetAt(dom, ip, [el EXCEPT !.cls = "collapsed", !.kids = <<>>])
                /\ domOps' = <<DomOp("collapse", el.path)>>
                /\ UNCHANGED <<walks, liCount>>
    /\ UNCHANGED <<fs, directoryHandle, directoryTree, monitorInterval, intervals,
                   nchanges, openVars, clickVars>>

(***************************************************************************)
(* Initial states                                                          *)
(***************************************************************************)
OpenInit ==
    /\ widgets = <<>>
    /\ previewWidget = NoWidget
    /\ models = {}
    /\ loads = [u \in Uris |-> 0]
    /\ tasks = <<>>
    /\ ops = <<>>
    /\ nopens = 0
    /\ lastPreview = "none"

ClickInit ==
    /\ clickTimer = [h \in Handles |-> NoTimer]
    /\ selectedItem = "none"
    /\ fileSelected = {}
    /\ clickOps = <<>>
    /\ emitted = <<>>
    /\ hist = [h \in Handles |-> NoHist]
    /\ nclicks = 0
    /\ removed = {}

TreeInit ==
    /\ fs \in InitialStores
    /\ directoryHandle = FALSE
    /\ directoryTree = NoTree
    /\ expandedPaths = {}
    /\ dom = NoEl
    /\ domOps = <<>>
    /\ walks = <<>>
    /\ monitorInterval = FALSE
    /\ intervals = 0
    /\ nchanges = 0

\* the tree is not part of Spec and SpecClick
TreeIdle ==
    /\ fs = EmptyStore
    /\ directoryHandle = FALSE
    /\ directoryTree = NoTree
    /\ expandedPaths = {}
    /\ dom = NoEl
    /\ domOps = <<>>
    /\ walks = <<>>
    /\ monitorInterval = FALSE
    /\ intervals = 0
    /\ nchanges = 0

\* no object of the lazy tree exists
LazyIdle ==
    /\ nodes = <<>>
    /\ liCount = 0

Init == OpenInit /\ ClickInit /\ TreeIdle /\ LazyIdle

InitTree == OpenInit /\ ClickInit /\ TreeInit /\ LazyIdle

\* the lazy tree before the first directory is opened
LazyInit ==
    /\ fs \in InitialStores
    /\ directoryHandle = NoHandle
    /\ directoryTree = NoNode
    /\ expandedPaths = {}
    /\ dom = NoEl
    /\ domOps = <<>>
    /\ walks = <<>>
    /\ monitorInterval = FALSE
    /\ intervals = 0
    /\ nchanges = 0
    /\ nodes = <<>>
    /\ liCount = 0

InitLazy == OpenInit /\ ClickInit /\ LazyInit

(***************************************************************************)
(* Spec: fileOpened handler and tabs                                       *)
(***************************************************************************)
Next ==
    \/ \E h \in Handles, p \in BOOLEAN : Emit(h, p)
    \/ \E i \in 1..Len(tasks) : ReadDone(i)
    \/ \E i \in 1..Len(tasks) : ReadFail(i)
    \/ \E w \in 1..Len(widgets) : CloseTab(w)
    \/ \E w \in 1..Len(widgets) : EditContent(w)

Spec == Init /\ [][Next]_vars

(***************************************************************************)
(* Properties of Spec                                                      *)
(***************************************************************************)
PreviewViews(ws) == {i \in AttachedIds(ws) : ws[i].isPreview}

ViewsOf(ws, h) == {i \in AttachedIds(ws) : ws[i].handle = h}

\* the step ran the preview (p) or commit (~p) branch of the handler for h
BranchRan(o, h, p) == \E i \in 1..Len(o) : o[i] = Op("branch", NoWidget, h, p)

Created(o) == {o[i].w : i \in {j \in 1..Len(o) : o[j].op = "create"}}

\* C1: the slot holds at most one entry and at most one preview-marked view is
\* open; a step that creates a preview view has closed, earlier in the same
\* step, every preview view that was open before it.
C1_PreviewSingleton ==
    /\ [](/\ previewWidget \in {NoWidget} \cup (1..Len(widgets))
          /\ Cardinality(PreviewViews(widgets)) <= 1)
    /\ [][\A i \in 1..Len(ops') :
            (ops'[i].op = "create" /\ ops'[i].preview)
            => \A x \in PreviewViews(widgets) :
                 \E j \in 1..(i - 1) : ops'[j].op = "close" /\ ops'[j].w = x]_vars

\* C1 witness: a preview of another key was closed and the new one created
C1_Witness ==
    /\ Len(ops) >= 4
    /\ \E i, j \in 1..Len(ops) :
          /\ i < j
          /\ ops[i].op = "close" /\ ops[i].preview
          /\ ops[j].op = "create" /\ ops[j].preview
          /\ ops[i].handle # ops[j].handle
          /\ ~widgets[ops[i].w].attached
          /\ previewWidget = ops[j].w

\* a commit intent for h is handled while the slot holds an open preview of
\* another key and h has no open view
CommitBesidePreview(h) ==
    /\ BranchRan(ops', h, FALSE)
    /\ previewWidget # NoWidget
    /\ previewWidget \in PreviewViews(widgets)
    /\ widgets[previewWidget].handle # h
    /\ ViewsOf(widgets, h) = {}

NewPermanent(h) ==
    /\ Len(widgets') = Len(widgets) + 1
    /\ widgets'[Len(widgets')] = NewWidget(h, FALSE)

\* C3 as claimed: the commit of Y closes the preview of X and opens Y as a
\* permanent view.
C3_Original ==
    [][\A h \in Handles :
         CommitBesidePreview(h)
         => /\ ~widgets'[previewWidget].attached
            /\ NewPermanent(h)]_vars

\* C3 amended: the commit of Y opens Y as a permanent view and leaves the
\* preview of X open, still preview-marked and still held by the slot.
C3_CommitKeepsPreview ==
    [][\A h \in Handles :
         CommitBesidePreview(h)
         => /\ NewPermanent(h)
            /\ previewWidget' = previewWidget
            /\ widgets'[previewWidget] = widgets[previewWidget]
            /\ previewWidget \in PreviewViews(widgets')]_vars

\* C3 witness: a commit branch created a permanent view beside a held preview
C3_Witness ==
    \E h \in Handles :
       /\ BranchRan(ops, h, FALSE)
       /\ Created(ops) # {}
       /\ previewWidget \in PreviewViews(widgets)
       /\ widgets[previewWidget].handle # h

\* C4: the commit branch for key h (1) with a permanent view of h open changes
\* no view and activates that view; (2) else with the slot holding a preview
\* of h makes that view permanent, empties the slot and creates nothing;
\* (3) else appends exactly one permanent view of h and leaves the slot alone.
C4_CommitOpen ==
    [][\A h \in Handles :
         BranchRan(ops', h, FALSE)
         => LET perms == {i \in ViewsOf(widgets, h) : ~widgets[i].isPreview}
                held  == previewWidget # NoWidget /\ widgets[previewWidget].handle = h
            IN  /\ perms # {}
                   => /\ widgets' = widgets
                      /\ previewWidget' = previewWidget
                      /\ \E i \in 1..Len(ops') :
                            ops'[i].op = "activate" /\ ops'[i].w \in perms
                /\ (perms = {} /\ held)
                   => /\ Len(widgets') = Len(widgets)
                      /\ widgets' = [widgets EXCEPT ![previewWidget].isPreview = FALSE]
                      /\ previewWidget' = NoWidget
                /\ (perms = {} /\ ~held)
                   => /\ NewPermanent(h)
                      /\ SubSeq(widgets', 1, Len(widgets)) = widgets
                      /\ previewWidget' = previewWidget]_vars

\* C4 witness: a commit for the key of the held, open preview promoted it
C4_Witness ==
    \E i \in 1..Len(ops) :
       /\ ops[i].op = "promote"
       /\ BranchRan(ops, ops[i].handle, FALSE)
       /\ widgets[ops[i].w].attached
       /\ ~widgets[ops[i].w].isPreview
       /\ previewWidget = NoWidget

\* C5: an open of h that starts while a view of h is open does not call the
\* loader and finds the model registered (no model is created or replaced).
C5_ModelShared ==
    [][\A h \in Handles :
         (/\ ops' # <<>>
          /\ ops'[1].op = "open"
          /\ ops'[1].handle = h
          /\ ViewsOf(widgets, h) # {})
         => /\ loads' = loads
            /\ tasks' = tasks
            /\ Uri(h) \in models
            /\ models' = models]_vars

\* C5 witness: a second open of a key ran to its end beside an earlier view of
\* that key, the loader having run once
C5_Witness ==
    /\ ops # <<>>
    /\ ops[1].op = "open"
    /\ ViewsOf(widgets, ops[1].handle) \ Created(ops) # {}
    /\ loads[Uri(ops[1].handle)] = 1
    /\ BranchRan(ops, ops[1].handle, ops[1].preview)

\* C6: a model is live exactly while some open view references its key: no
\* open view references a key without a live model, and no model stays
\* registered once the last view of its key is closed.
C6_ModelLifetime ==
    /\ \A i \in AttachedIds(widgets) : Uri(widgets[i].handle) \in models
    /\ \A u \in models : \E i \in AttachedIds(widgets) : Uri(widgets[i].handle) = u

\* C7: a non-empty slot references a view that is attached and preview-marked.
C7_SlotInvariant ==
    previewWidget # NoWidget
    => /\ previewWidget \in 1..Len(widgets)
       /\ widgets[previewWidget].attached
       /\ widgets[previewWidget].isPreview

\* C11: a preview intent for the handle of the preview the slot holds creates
\* no view, closes no view and leaves the slot holding the same view.
C11_PreviewIdempotent ==
    [][\A h \in Handles :
         (/\ BranchRan(ops', h, TRUE)
          /\ previewWidget # NoWidget
          /\ widgets[previewWidget].handle = h)
         => /\ Len(widgets') = Len(widgets)
            /\ widgets' = widgets
            /\ previewWidget' = previewWidget
            /\ Created(ops') = {}
            /\ \A i \in 1..Len(ops') : ops'[i].op # "close"]_vars

\* C11 witness: a second preview intent for the held, open preview activated it
C11_Witness ==
    /\ previewWidget \in PreviewViews(widgets)
    /\ BranchRan(ops, widgets[previewWidget].handle, TRUE)
    /\ Created(ops) = {}
    /\ \E i \in 1..Len(ops) : ops[i].op = "activate" /\ ops[i].w = previewWidget

\* C12: an edit of the content of the held, open preview makes that view
\* permanent, empties the slot and leaves the view open; a view that is not
\* preview-marked never becomes preview-marked again, and no preview-intent
\* open closes a view that is not preview-marked.
C12_PromotionOnEdit ==
    [][/\ \A w \in 1..Len(widgets) :
            (/\ EditContent(w)
             /\ previewWidget \in PreviewViews(widgets)
             /\ Uri(widgets[previewWidget].handle) = Uri(widgets[w].handle))
            => /\ ~widgets'[previewWidget].isPreview
               /\ widgets'[previewWidget].attached
               /\ previewWidget' = NoWidget
       /\ \A i \in 1..Len(widgets) :
            ~widgets[i].isPreview => ~widgets'[i].isPreview
       /\ \A h \in Handles :
            BranchRan(ops', h, TRUE)
            => \A i \in AttachedIds(widgets) :
                  ~widgets[i].isPreview => widgets'[i].attached]_vars

\* C12 witness: the only view, opened as the preview, was edited and is now
\* open, permanent and out of the slot
C12_Witness ==
    /\ Len(widgets) = 1
    /\ ops = <<Op("edit", 1, widgets[1].handle, TRUE)>>
    /\ widgets[1].attached
    /\ ~widgets[1].isPreview
    /\ previewWidget = NoWidget

\* C26: a failed read of the file in an open registers no model, creates no
\* view and leaves the open views and the preview slot as they are.
C26_ReadErrorNoChange ==
    [][\A i \in 1..Len(tasks) :
         ReadFail(i)
         => /\ models' = models
            /\ widgets' = widgets
            /\ previewWidget' = previewWidget
            /\ Created(ops') = {}]_vars

\* C26 witness: the read failed for a key that has no model, while a preview
\* of another key is open
C26_Witness ==
    /\ Len(ops) = 2 /\ ops[1].op = "resume" /\ ops[2].op = "error"
    /\ Uri(ops[1].handle) \notin models
    /\ ViewsOf(widgets, ops[1].handle) = {}
    /\ previewWidget # NoWidget /\ widgets[previewWidget].attached

\* the model the editor of view w is bound to: getModel(uri), uri made from
\* the handle's name
ModelOf(ws, w) == Uri(ws[w].handle)

\* C27: the open views of two different files are never bound to one model.
C27_ModelPerFile ==
    \A i, j \in AttachedIds(widgets) :
       widgets[i].handle # widgets[j].handle => ModelOf(widgets, i) # ModelOf(widgets, j)

\* C28: no file has two open views.
C28_OneViewPerKey ==
    \A h \in Handles : Cardinality(ViewsOf(widgets, h)) <= 1

\* C29: the file of a key is read at most once, and an open that resumes
\* from its read ends with a view of its file open, not with an error.
C29_OverlappingOpens ==
    [][/\ \A u \in Uris : loads'[u] <= 1
       /\ \A i \in 1..Len(tasks) :
             ReadDone(i)
             => /\ \A k \in 1..Len(ops') : ops'[k].op # "error"
                /\ ViewsOf(widgets', tasks[i].handle) # {}]_vars

\* C30: when the last of the suspended opens resumes, a preview of a key
\* requested before the latest preview intent does not take the slot from
\* the preview of the latest one.
C30_LatestPreviewWins ==
    [][\A i \in 1..Len(tasks) :
         (/\ ReadDone(i)
          /\ Len(tasks) = 1
          /\ tasks[i].preview
          /\ tasks[i].handle # lastPreview
          /\ previewWidget # NoWidget
          /\ widgets[previewWidget].attached
          /\ widgets[previewWidget].handle = lastPreview)
         => /\ previewWidget' # NoWidget
            /\ widgets'[previewWidget'].handle = lastPreview]_vars

(***************************************************************************)
(* SpecClick: the file entries                                             *)
(***************************************************************************)
NextClick ==
    \/ \E h \in Handles : Click(h)
    \/ \E h \in Handles : TimerFire(h)
    \/ Advance
    \/ \E S \in Removals : RemoveEntries(S)

SpecClick == Init /\ [][NextClick]_vars

(***************************************************************************)
(* Properties of SpecClick                                                 *)
(***************************************************************************)
\* C2: an entry clicked once and then left alone for more than the delay has
\* emitted one preview intent and no commit intent; an entry clicked twice
\* less than the delay apart has emitted one commit intent and no preview
\* intent; in both cases no timer is pending for it.
C2_ClickDisambiguation ==
    \A h \in Handles :
       /\ (hist[h].clicks = 1 /\ hist[h].age > ClickDelay)
          => /\ hist[h].previews = 1
             /\ hist[h].commits = 0
             /\ clickTimer[h] = NoTimer
       /\ (hist[h].clicks = 2 /\ hist[h].fast)
          => /\ hist[h].commits = 1
             /\ hist[h].previews = 0
             /\ clickTimer[h] = NoTimer

\* the position of the first operation o on entry h in a step's operations,
\* 0 when there is none
FirstOp(co, o, h) ==
    LET hits == {i \in 1..Len(co) : co[i] = ClickOp(o, h)}
    IN  IF hits = {} THEN 0 ELSE CHOOSE i \in hits : \A j \in hits : i <= j

\* C22: at most one entry carries the selected class; a click on an entry
\* leaves exactly that entry selected, and the class is moved before the
\* click emits anything.
C22_SingleSelection ==
    /\ Cardinality(fileSelected) <= 1
    /\ [][/\ Cardinality(fileSelected') <= 1
           /\ \A h \in Handles :
                 Click(h)
                 => /\ fileSelected' = {h}
                    /\ FirstOp(clickOps', "select", h) > 0
                    /\ FirstOp(clickOps', "emit", h) > 0
                       => FirstOp(clickOps', "select", h) < FirstOp(clickOps', "emit", h)]_vars

\* C22 witness: a double click has moved the selection from another entry
\* and emitted its commit intent
C22_Witness ==
    \E h \in Handles :
       /\ fileSelected = {h}
       /\ emitted = <<Intent(h, FALSE)>>
       /\ \E g \in Handles \ {h} : FirstOp(clickOps, "unselect", g) > 0

\* C23: a click on an entry B with no timer of its own, while the timer of
\* another entry A is pending, emits nothing, arms B's timer and leaves A's
\* timer as it is; a timer that fires emits the preview intent of its own
\* entry and touches no other timer; a pending timer goes away only when it
\* fires or its own entry is clicked.
C23_IndependentTimers ==
    [][/\ \A A, B \in Handles :
             (A # B /\ Click(B) /\ clickTimer[A] # NoTimer /\ clickTimer[B] = NoTimer)
             => /\ emitted' = <<>>
                /\ clickTimer'[A] = clickTimer[A]
                /\ clickTimer'[B] = 0
       /\ \A h \in Handles :
             TimerFire(h)
             => /\ emitted' = <<Intent(h, TRUE)>>
                /\ \A g \in Handles \ {h} : clickTimer'[g] = clickTimer[g]
       /\ \A h \in Handles :
             (clickTimer[h] # NoTimer /\ clickTimer'[h] = NoTimer)
             => TimerFire(h) \/ Click(h)]_vars

\* C23 witness: the timer of an entry clicked once has just emitted its
\* preview while the timer of another entry, clicked once after it, is
\* still pending
C23_Witness ==
    \E A, B \in Handles :
       /\ A # B
       /\ hist[A].clicks = 1 /\ hist[B].clicks = 1
       /\ emitted = <<Intent(A, TRUE)>>
       /\ hist[A].previews = 1 /\ hist[A].commits = 0 /\ hist[B].commits = 0
       /\ clickTimer[A] = NoTimer
       /\ clickTimer[B] # NoTimer /\ clickTimer[B] > 0 /\ clickTimer[B] < ClickDelay

\* C34: an entry clicked k times, each click less than the delay after the
\* one before, has emitted k \div 2 commit intents; while the last click is
\* less than the delay ago an odd k has a timer pending and an even k has
\* none, and after the delay k % 2 preview intents have been emitted and no
\* timer is pending.
C34_ClickTrain ==
    \A h \in Handles :
       (hist[h].clicks > 0 /\ hist[h].fast)
       => /\ hist[h].commits = hist[h].clicks \div 2
          /\ hist[h].previews <= hist[h].clicks % 2
          /\ hist[h].clicks % 2 = 0 => clickTimer[h] = NoTimer
          /\ hist[h].age > ClickDelay
             => /\ hist[h].previews = hist[h].clicks % 2
                /\ clickTimer[h] = NoTimer

\* C34 witness: a triple click, left alone, has emitted one commit and then
\* one preview
C34_Witness ==
    \E h \in Handles :
       /\ hist[h].clicks = 3 /\ hist[h].fast /\ hist[h].age > ClickDelay
       /\ hist[h].commits = 1 /\ hist[h].previews = 1

\* C35: a preview intent is emitted only for an entry whose <li> is in the
\* document.
C35_NoIntentForRemoved ==
    \A k \in 1..Len(emitted) : emitted[k].preview => emitted[k].handle \notin removed

\* C2 witness: one entry was clicked once and left alone, another was
\* double-clicked
C2_Witness ==
    \E h, g \in Handles :
       /\ hist[h].clicks = 1 /\ hist[h].age > ClickDelay /\ hist[h].previews = 1
       /\ hist[g].clicks = 2 /\ hist[g].fast /\ hist[g].commits = 1

(***************************************************************************)
(* SpecTree: the polled directory tree                                     *)
(***************************************************************************)
\* the keys a directory of the store can have
DirKeys == {<<"r">>, <<"r", "d">>, <<"r", "d", "e">>}

NextTree ==
    \/ OpenStart
    \/ \E i \in 1..Len(walks) : OpenDone(i)
    \/ Tick
    \/ \E i \in 1..Len(walks) : RefreshDone(i)
    \/ \E i \in 1..Len(walks), P \in DirKeys : RefreshFail(i, P)
    \/ \E ip \in Clickable(dom, <<>>) : DirClick(ip)
    \/ \E t \in Stores : StoreChange(t)

SpecTree == InitTree /\ [][NextTree]_vars

(***************************************************************************)
(* Properties of SpecTree                                                  *)
(***************************************************************************)
RECURSIVE AllEls(_)
\* every element of the visual tree below (and including) el
AllEls(el) == {el} \cup UNION {AllEls(el.kids[k]) : k \in 1..Len(el.kids)}

OpPaths(o, kind) == {o[i].path : i \in {j \in 1..Len(o) : o[j].op = kind}}

OpCount(o, kind, path) == Cardinality({i \in 1..Len(o) : o[i] = DomOp(kind, path)})

RECURSIVE Skeleton(_)
\* the visual tree without the expanded/collapsed classes
Skeleton(el) ==
    [path |-> el.path, kind |-> el.kind, node |-> el.node,
     kids |-> [k \in 1..Len(el.kids) |-> Skeleton(el.kids[k])]]

RECURSIVE Positions(_, _)
\* the index paths of all elements below (and including) el
Positions(el, ip) ==
    {ip} \cup UNION {Positions(el.kids[k], Append(ip, k)) : k \in 1..Len(el.kids)}

\* the elements of the visual tree that carry the key path
Shown(el, path) == {ip \in Positions(el, <<>>) : ElAt(el, ip).path = path}

RECURSIVE NodeAt(_, _)
NodeAt(node, names) ==
    IF names = <<>> THEN node
    ELSE IF node.kind = "directory" /\ Has(node, Head(names))
    THEN NodeAt(Get(node, Head(names)), Tail(names))
    ELSE NoTree

\* the node of a snapshot at a key path
TreeAt(tree, path) == IF tree.name = Head(path) THEN NodeAt(tree, Tail(path)) ELSE NoTree

NameSet(node) == {node.children[i].name : i \in 1..Len(node.children)}

\* C8: a refresh whose snapshot equals the stored one creates, attaches and
\* detaches nothing, and leaves every element of the visual tree in place.
C8_Idempotent ==
    [][\A i \in 1..Len(walks) :
         (RefreshDone(i) /\ Walk = directoryTree)
         => /\ OpPaths(domOps', "attach") = {}
            /\ OpPaths(domOps', "detach") = {}
            /\ OpPaths(domOps', "create") = {}
            /\ Skeleton(dom') = Skeleton(dom)]_vars

\* C8 witness: a refresh with an identical snapshot ran on a tree that shows
\* an expanded directory with children
C8_Witness ==
    /\ domOps = <<DomOp("refresh-same", <<>>)>>
    /\ \E el \in AllEls(dom) :
          el.path # <<"r">> /\ el.cls = "expanded" /\ el.kids # <<>>

\* the diff of one directory level, as the operations of a refresh o on the
\* visual tree before (el) and after (el2)
LevelMinimal(old, new, el, el2, o, P) ==
    LET O == NameSet(TreeAt(old, P))
        N == NameSet(TreeAt(new, P))
        same == {m \in O \cap N : Get(TreeAt(old, P), m).kind = Get(TreeAt(new, P), m).kind}
    IN  /\ \A m \in O \ N :
              LET p == Append(P, m)
              IN  /\ OpCount(o, "detach", p) = Cardinality(Shown(el, p))
                  /\ Shown(el2, p) = {}
                  /\ OpCount(o, "attach", p) = 0
        /\ \A m \in N \ O :
              LET p == Append(P, m)
              IN  /\ OpCount(o, "attach", p) = 1
                  /\ OpCount(o, "create", p) = 1
                  /\ OpCount(o, "detach", p) = 0
        /\ \A m \in same :
              LET p == Append(P, m)
              IN  /\ OpCount(o, "attach", p) = 0
                  /\ OpCount(o, "detach", p) = 0
                  /\ OpCount(o, "create", p) = 0
                  /\ Cardinality(Shown(el2, p)) = Cardinality(Shown(el, p))

\* C9: a refresh of a directory shown in the visual tree, whose old children
\* are O and new children are N, detaches exactly the visual nodes of O \ N,
\* attaches exactly one fresh visual node for each name of N \ O, and neither
\* rebuilds, detaches nor attaches the visual node of a name in both whose
\* kind is unchanged.
C9_DiffMinimal ==
    [][\A i \in 1..Len(walks) :
         RefreshDone(i)
         => \A P \in DirKeys :
               (/\ TreeAt(directoryTree, P).kind = "directory"
                /\ TreeAt(Walk, P).kind = "directory"
                /\ \E ip \in Shown(dom, P) : ElAt(dom, ip).kind = "directory")
               => LevelMinimal(directoryTree, Walk, dom, dom', domOps', P)]_vars

\* C10: after a refresh, every element of the visual tree that stands for a
\* directory of the new snapshot whose key was in the expansion set before
\* the refresh is in the expanded state.
C10_ExpansionPersists ==
    [][\A i \in 1..Len(walks) :
         RefreshDone(i)
         => \A el \in AllEls(dom') :
               (/\ el.kind = "directory"
                /\ el.path \in expandedPaths
                /\ TreeAt(Walk, el.path).kind = "directory")
               => el.cls = "expanded"]_vars

\* C19: the walk of a refresh enumerates only directories whose key is in the
\* expansion set at that time.
C19_RefreshSkipsCollapsed ==
    [][\A i \in 1..Len(walks) :
         RefreshDone(i) => Enumerated(Walk, <<>>) \subseteq expandedPaths]_vars

\* the keys of the children of the snapshot directory at P, in enumeration
\* order
KeysAt(tree, P) ==
    [k \in 1..Len(TreeAt(tree, P).children) |-> Append(P, TreeAt(tree, P).children[k].name)]

\* C20: after a refresh the children attached to an expanded directory of
\* the visual tree are in the enumeration order of the new snapshot.
C20_VisualOrder ==
    [][\A i \in 1..Len(walks) :
         RefreshDone(i)
         => \A ip \in Positions(dom', <<>>) :
               LET el == ElAt(dom', ip)
               IN  (/\ el.kind = "directory"
                    /\ el.cls = "expanded"
                    /\ TreeAt(Walk, el.path).kind = "directory")
                   => [k \in 1..Len(el.kids) |-> el.kids[k].path] = KeysAt(Walk, el.path)]_vars

\* the keys whose kind (file, directory) differs between two snapshots
KindChanged(old, new) ==
    {P \in {<<"r", "d">>, <<"r", "d", "e">>} :
        /\ TreeAt(old, P).kind # "none"
        /\ TreeAt(new, P).kind # "none"
        /\ TreeAt(old, P).kind # TreeAt(new, P).kind}

\* C21: a refresh that finds a key with another kind than the stored snapshot
\* has detaches every visual node of that key and attaches one built from
\* the new node; no visual node of the old kind is left.
C21_KindChangeReplaces ==
    [][\A i \in 1..Len(walks) :
         RefreshDone(i)
         => \A P \in KindChanged(directoryTree, Walk) :
               Shown(dom, P) # {}
               => /\ OpCount(domOps', "detach", P) >= 1
                  /\ OpCount(domOps', "attach", P) >= 1
                  /\ \A ip \in Shown(dom', P) :
                        /\ ElAt(dom', ip).kind = TreeAt(Walk, P).kind
                        /\ ElAt(dom', ip).node = TreeAt(Walk, P)]_vars

\* the refresh cycles (checkForUpdates) that have started and not ended
RefreshCycles == {i \in 1..Len(walks) : walks[i] = "refresh"}

\* C24: at no time are two refresh cycles in progress.
C24_RefreshSerialized == Cardinality(RefreshCycles) <= 1

\* C25: a refresh whose walk fails in the enumeration of a directory
\* detaches nothing; the stored snapshot and the visual tree stay as they
\* were.
C25_FailedRefreshKeeps ==
    [][\A i \in 1..Len(walks), P \in DirKeys :
         RefreshFail(i, P)
         => /\ OpPaths(domOps', "detach") = {}
            /\ directoryTree' = directoryTree
            /\ dom' = dom]_vars

\* C25 witness: the enumeration of r/d failed in a refresh while the visual
\* tree shows a child of r/d that the store no longer has
C25_Witness ==
    /\ domOps = <<DomOp("refresh-failed", <<"r", "d">>)>>
    /\ \E m \in {"x", "e"} :
          /\ Shown(dom, <<"r", "d", m>>) # {}
          /\ TreeAt(directoryTree, <<"r", "d", m>>).kind # "none"
          /\ TreeAt(Walk, <<"r", "d", m>>).kind = "none"

\* C37: every directory entry shown in the expanded state displays exactly
\* the children its directory has in the stored (most recent) snapshot, each
\* once.
C37_ShowsSnapshot ==
    \A ip \in Clickable(dom, <<>>) :
       LET el == ElAt(dom, ip)
           keys == KeysAt(directoryTree, el.path)
       IN  (el.cls = "expanded" /\ TreeAt(directoryTree, el.path).kind = "directory")
           => \A p \in {el.kids[k].path : k \in 1..Len(el.kids)}
                    \cup {keys[k] : k \in 1..Len(keys)} :
                 /\ Cardinality({k \in 1..Len(el.kids) : el.kids[k].path = p}) = 1
                 /\ \E k \in 1..Len(keys) : keys[k] = p

(***************************************************************************)
(* SpecReopen: the polled tree with repeated top-level opens and dispose,  *)
(* the store left alone                                                    *)
(***************************************************************************)
NextReopen ==
    \/ OpenStart
    \/ Reopen
    \/ \E i \in 1..Len(walks) : OpenDone(i)
    \/ Tick
    \/ \E i \in 1..Len(walks) : RefreshDone(i)
    \/ \E i \in 1..Len(walks), P \in DirKeys : RefreshFail(i, P)
    \/ \E ip \in Clickable(dom, <<>>) : DirClick(ip)
    \/ Dispose

SpecReopen == InitTree /\ [][NextReopen]_vars

\* C36: at most one interval is armed at any time, and none after dispose.
C36_OneInterval ==
    /\ intervals <= 1
    /\ (domOps = <<DomOp("dispose", <<>>)>>) => intervals = 0


(***************************************************************************)
(* SpecLazy: the lazily loaded directory tree                              *)
(***************************************************************************)
NextLazy ==
    \/ \E h \in RootHandles : LazyOpenStart(h)
    \/ \E i \in 1..Len(walks) : EnumNext(i)
    \/ \E i \in 1..Len(walks) : EnumFail(i)
    \/ \E i \in 1..Len(walks) : EnumDone(i)
    \/ \E ip \in Clickable(dom, <<>>) : LazyDirClick(ip)

SpecLazy == InitLazy /\ [][NextLazy]_vars

(***************************************************************************)
(* Properties of SpecLazy                                                  *)
(***************************************************************************)
\* the entries a directory node holds, in the order of its Map
ChildEntries(heap, n) ==
    [k \in 1..Len(heap[n].children) |->
        Entry(heap[heap[n].children[k]].name, heap[heap[n].children[k]].kind)]

\* the stored root after a top-level open: loaded, holding one enumeration
\* of its directory, its key expanded, its child directories not loaded
OpenedRoot(heap, root, ex) ==
    /\ heap[root].loaded
    /\ ChildEntries(heap, root) = entries(fs, heap[root].path)
    /\ heap[root].path \in ex
    /\ \A k \in 1..Len(heap[root].children) :
          LET c == heap[heap[root].children[k]]
          IN  c.kind = "directory" => (~c.loaded /\ c.children = <<>>)

\* C13: when a top-level open completes, the stored root is loaded with
\* children equal to one enumeration of the root, the root key is in the
\* expansion set, and every child directory is not loaded and has no children.
C13_OpenLoadsRoot ==
    [][\A i \in 1..Len(walks) :
         (EnumDone(i) /\ walks[i].op = "open")
         => OpenedRoot(nodes', directoryTree', expandedPaths')]_vars

\* C14: when the enumeration of an expand raises, the node is not loaded
\* afterwards (so that the next expand enumerates again).
C14_FailedExpandRetries ==
    [][\A i \in 1..Len(walks) :
         (EnumFail(i) /\ walks[i].op = "expand")
         => ~nodes'[walks[i].node].loaded]_vars

\* C15: in every state a loaded directory node holds exactly the complete
\* result of one enumeration of its directory, in enumeration order, and a
\* directory node that is not loaded holds no children.
C15_LoadedMeansComplete ==
    \A n \in 1..Len(nodes) :
       nodes[n].kind = "directory"
       => IF nodes[n].loaded
          THEN ChildEntries(nodes, n) = entries(fs, nodes[n].path)
          ELSE nodes[n].children = <<>>

\* C16: no node is enumerated more than once, whatever clicks arrive while
\* its enumeration is in flight or after it.
C16_EnumeratedOnce ==
    \A n \in 1..Len(nodes) : nodes[n].reads <= 1

\* C16 witness: a directory was expanded again while its enumeration was
\* still in flight
C16_Witness ==
    \E i \in 1..Len(walks) :
       /\ walks[i].op = "expand"
       /\ domOps = <<DomOp("expand", walks[i].dir)>>
       /\ nodes[walks[i].node].reads = 1

\* the <li> at ip shows the children of its node, in the order of the Map
ShowsChildren(el, heap) ==
    /\ Len(el.kids) = Len(heap[el.node].children)
    /\ \A k \in 1..Len(el.kids) : el.kids[k].node = heap[el.node].children[k]

\* C17: a collapse removes the key of the node from the expansion set and
\* changes no node (loaded and children stay) and starts nothing; the expand
\* of a loaded node enumerates nothing and shows the children the node holds.
C17_CollapseKeepsChildren ==
    [][\A ip \in Clickable(dom, <<>>) :
         LazyDirClick(ip)
         => LET el == ElAt(dom, ip)
            IN  /\ el.cls = "expanded"
                   => /\ expandedPaths' = expandedPaths \ {el.path}
                      /\ nodes' = nodes
                      /\ walks' = walks
                      /\ directoryTree' = directoryTree
                /\ (el.cls = "collapsed" /\ nodes[el.node].loaded)
                   => /\ nodes' = nodes
                      /\ walks' = walks
                      /\ ShowsChildren(ElAt(dom', ip), nodes)]_vars

\* C17 witness: a directory whose enumeration had completed was collapsed and
\* is expanded again, showing its children
C17_Witness ==
    \E ip \in Clickable(dom, <<>>) :
       LET el == ElAt(dom, ip)
       IN  /\ Len(el.path) = 2
           /\ domOps = <<DomOp("expand", el.path)>>
           /\ el.cls = "expanded"
           /\ Len(el.kids) = 2
           /\ \A i \in 1..Len(walks) : walks[i].node # el.node

\* C18: when a top-level open fails, the stored root handle, the stored tree,
\* the expansion set and the visible tree are those from before the open.
C18_FailedOpenNoChange ==
    [][\A i \in 1..Len(walks) :
         (EnumFail(i) /\ walks[i].op = "open")
         => /\ directoryHandle' = walks[i].prior.directoryHandle
            /\ directoryTree' = walks[i].prior.directoryTree
            /\ expandedPaths' = walks[i].prior.expandedPaths
            /\ dom' = walks[i].prior.dom]_vars

\* the top-level opens suspended in their enumeration
OpensInFlight(ws) == {i \in 1..Len(ws) : ws[i].op = "open"}

\* C31: when the last of the top-level opens in flight completes, the stored
\* root holds exactly the entries of the directory opened last, and the
\* visible tree is built from that stored root.
C31_OverlappingOpens ==
    [][\A i \in 1..Len(walks) :
         (EnumDone(i) /\ walks[i].op = "open" /\ OpensInFlight(walks') = {})
         => /\ ChildEntries(nodes', directoryTree') = entries(fs, <<directoryHandle'>>)
            /\ dom'.node = directoryTree']_vars

\* C32: when an expand handler finishes on a directory entry that was
\* collapsed while the handler was suspended, the entry is still collapsed,
\* its key is not in the expansion set and no child is attached under it.
C32_CollapseDuringExpand ==
    [][\A i \in 1..Len(walks) :
         (EnumDone(i) /\ walks[i].op = "expand")
         => \A ip \in LiPos(dom, walks[i].li, <<>>) :
               ElAt(dom, ip).cls = "collapsed"
               => /\ ElAt(dom', ip).cls = "collapsed"
                  /\ ElAt(dom', ip).path \notin expandedPaths'
                  /\ ElAt(dom', ip).kids = <<>>]_vars

\* no expand handler of node n is in flight
Quiet(n) == \A i \in 1..Len(walks) : walks[i].op = "expand" => walks[i].node # n

\* C33: a directory entry below the root that is shown expanded while no
\* expand handler of its node is in flight shows each child its node holds
\* exactly once, in the order of the enumeration.
C33_ChildrenOnce ==
    dom # NoEl
    => \A ip \in Positions(dom, <<>>) :
          LET el == ElAt(dom, ip)
          IN  (/\ Len(el.path) > 1
               /\ el.kind = "directory"
               /\ el.cls = "expanded"
               /\ Quiet(el.node))
              => ShowsChildren(el, nodes)

====
